---- MODULE Spec2Model ----
(***************************************************************************)
(* Model of the OIC inventory scripts:                                     *)
(*   get_connections_dev.py   - paginated connections extract + enrichment *)
(*   get_integrations_dev.py  - paginated integrations extract             *)
(*   import_integrations_dev.py - bulk import with conflict resolution     *)
(*                                                                         *)
(* JSON values: a mapping is a record whose fields are all present in the  *)
(* model; a key that the JSON object does not carry has the value ABSENT,  *)
(* a key carrying JSON null (Python None) has the value NULL.  Nested      *)
(* objects and lists carry a tag ("absent", "null", "dict", "list").       *)
(* File names and base URLs, whose characters the code inspects, are       *)
(* sequences of one-character strings.                                     *)
(***************************************************************************)
EXTENDS Integers, Sequences, FiniteSets, TLC

\* ------------------------------------------------------------------ bounds
\* pages one sweep may request before the model stops following it
MaxPages == 3
\* connection properties of one raw item handed to the normalizer
MaxProps == 2
\* files in the import directory
MaxFiles == 3
\* import_integration calls against the storing platform
MaxUploads == 4
\* characters of a base URL after its scheme
MaxUrlLen == 3

\* -------------------------------------------------------------------- state
VARIABLES
    \* main of get_connections_dev.py
    pc,                   \* position in main
    offset,               \* offset
    all_processed_items,  \* all_processed_items
    errors,               \* errors
    response_data,        \* response_data of the last page fetched
    requests,             \* every GET issued, in order
    fetches,              \* every fetch_data call: its url, whether it raised
    output_file,          \* every write_to_csv to output_file, in order
    row_index,            \* position of the enrichment loop (1-based)
    \* main of get_integrations_dev.py
    int_pc,               \* position in main
    int_offset,           \* offset
    int_response_data,    \* response_data of the last page fetched
    int_requests,         \* every GET issued, in order
    csv_file,             \* the output file: exists, open, rows written
    int_stdout,           \* the messages printed about the outcome
    \* import_integrations_from_directory / main of import_integrations_dev.py
    imp_pc,               \* position
    listing,              \* os.listdir(directory)
    file_index,           \* position of the for loop (1-based)
    results,              \* results
    upload_requests,      \* every upload request sent, in order
    upload_responses,     \* what each requests.request call returned, in order
    summary_csv,          \* the rows written by write_results_to_csv
    \* repeated import_integration calls against a storing platform
    store,                \* packages the platform holds
    history,              \* the status returned by each call, in order
    \* one call of fetch_data
    f_r1, f_r2,           \* the server's answers to the first and second GET
    f_r3,                 \* its answer to the requests a redirected second GET leads to
    f_result,             \* the result of the call
    f_pc,
    \* one call of a normalizer
    n_kind,               \* "conn" or "int"
    n_item,               \* the raw item
    n_result,             \* the result of the call
    n_pc,
    \* one call of ensure_https
    config_base_url,      \* config['base_url'], the argument
    https_url,            \* the value returned
    https_pc

connVars ==
    <<pc, offset, all_processed_items, errors, response_data, requests,
      fetches, output_file, row_index>>
intVars ==
    <<int_pc, int_offset, int_response_data, int_requests, csv_file, int_stdout>>
impVars ==
    <<imp_pc, listing, file_index, results, upload_requests, upload_responses,
      summary_csv>>
platVars == <<store, history>>
fetchVars == <<f_r1, f_r2, f_r3, f_result, f_pc>>
normVars == <<n_kind, n_item, n_result, n_pc>>
httpsVars == <<config_base_url, https_url, https_pc>>

vars == <<connVars, intVars, impVars, platVars, fetchVars, normVars, httpsVars>>

notConn == <<intVars, impVars, platVars, fetchVars, normVars, httpsVars>>
notInt == <<connVars, impVars, platVars, fetchVars, normVars, httpsVars>>
notImp == <<connVars, intVars, platVars, fetchVars, normVars, httpsVars>>
notPlat == <<connVars, intVars, impVars, fetchVars, normVars, httpsVars>>
notFetch == <<connVars, intVars, impVars, platVars, normVars, httpsVars>>
notNorm == <<connVars, intVars, impVars, platVars, fetchVars, httpsVars>>
notHttps == <<connVars, intVars, impVars, platVars, fetchVars, normVars>>

\* --------------------------------------------------------------- JSON values
ABSENT == "<absent>"
NULL == "<null>"

\* dict.get(key, default): the default only when the key is absent; a key
\* that is present with null yields None.
Get(v, default) == IF v = ABSENT THEN default ELSE v

\* dict.get(key): None when the key is absent.
GetNone(v) == IF v = ABSENT THEN NULL ELSE v

\* ------------------------------------------------------------ HTTP Fetcher
\* A response of the server to one session.get: exc = a network-level
\* failure (timeout, connection error); otherwise a status, the Location
\* header (NoLocation when not sent; a URL is a record) and a body
\* (body.json = FALSE: not JSON).
NoBody == [json |-> FALSE]
NoLocation == [host |-> ABSENT]
\* a URL a Location header may name
AltUrl == [host |-> "alt.example", path |-> "/x"]
NetFailure == [exc |-> TRUE, status |-> 0, location |-> NoLocation, body |-> NoBody]
Resp(status, location, body) ==
    [exc |-> FALSE, status |-> status, location |-> location, body |-> body]

\* Response.is_redirect of the requests library: a redirect status with a
\* Location header.
IsRedirect(r) ==
    /\ ~r.exc
    /\ r.status \in {301, 302, 303, 307, 308}
    /\ r.location # NoLocation

\* session.get(redirect_url): redirects are allowed by default, so the
\* library follows an answer that is a redirect.  r2 is the server's answer
\* to the follow-up GET, r3 its answer to every request the library sends
\* after it; a server that keeps redirecting ends in TooManyRedirects, a
\* RequestException like a network failure.
FollowUp(r2, r3) ==
    IF IsRedirect(r2)
    THEN IF IsRedirect(r3) THEN NetFailure ELSE r3
    ELSE r2

\* The response fetch_data ends with: the first one, or for a first status
\* 307 what the follow-up session.get ends with (session.get(None) raises
\* when the Location header is missing).
FinalResponse(r1, r2, r3) ==
    IF r1.exc THEN r1
    ELSE IF r1.status = 307
         THEN IF r1.location = NoLocation THEN NetFailure ELSE FollowUp(r2, r3)
         ELSE r1

\* response.status_code == 307
FollowsRedirect(r1) == (~r1.exc) /\ r1.status = 307

\* Session.max_redirects of the requests library: the redirects one
\* session.get follows before it raises TooManyRedirects.
RedirectLimit == 30

\* The GETs the library sends inside session.get(redirect_url) after the
\* one to redirect_url itself: none when the answer r2 is no redirect, one
\* (to r2's Location) when the answer to that, r3, is no redirect, and
\* RedirectLimit of them against a server that keeps redirecting.
LibraryGets(r2, r3) ==
    IF ~IsRedirect(r2) THEN <<>>
    ELSE IF ~IsRedirect(r3)
    THEN << [url |-> r2.location, allow_redirects |-> TRUE] >>
    ELSE [i \in 1..RedirectLimit |->
            [url |-> IF i = 1 THEN r2.location ELSE r3.location,
             allow_redirects |-> TRUE]]

\* The GETs of one fetch_data, in order: its own session.get calls (the
\* first with redirects disabled, the follow-up with the library's default)
\* and the GETs the library sends while it follows the follow-up's redirects.
FetchGets(url, r1, r2, r3) ==
    IF FollowsRedirect(r1)
    THEN << [url |-> url, allow_redirects |-> FALSE],
            [url |-> r1.location, allow_redirects |-> TRUE] >>
         \o (IF r1.location = NoLocation THEN <<>> ELSE LibraryGets(r2, r3))
    ELSE << [url |-> url, allow_redirects |-> FALSE] >>

\* response.raise_for_status(): HTTPError for 4xx and 5xx only.
RaiseForStatus(status) == status >= 400 /\ status < 600

\* fetch_data(session, url) against a server answering r1 to the first GET,
\* r2 to a follow-up GET and r3 to the requests a redirected follow-up leads
\* to.  raised: a requests RequestException left the
\* function: a network failure, the HTTPError of raise_for_status, or the
\* JSONDecodeError of response.json() for a body that is not JSON (a
\* RequestException since requests 2.27).
FetchData(url, r1, r2, r3) ==
    LET final == FinalResponse(r1, r2, r3)
        raised == final.exc \/ RaiseForStatus(final.status) \/ ~final.body.json
    IN [gets |-> FetchGets(url, r1, r2, r3),
        raised |-> raised,
        data |-> IF raised THEN NoBody ELSE final.body]

\* --------------------------------------------------- connections normalizer
\* The display names the host_url generator tests membership in.
HostNames ==
    <<"WSDL URL", "Connection URL", "Host", "ERP Cloud Host",
      "FTP Server Host Address">>

IsHostName(name) == \E i \in DOMAIN HostNames : HostNames[i] = name

Raised == [raised |-> TRUE, value |-> NULL]
Value(v) == [raised |-> FALSE, value |-> v]

\* next((prop.get("propertyValue") for prop in props
\*       if prop.get("displayName") in [...]), ""): the properties are
\* visited in the item's own order and the first one whose display name is
\* a member of the list is taken; a null entry raises AttributeError when
\* the generator reaches it.
RECURSIVE NextHostProp(_)
NextHostProp(props) ==
    IF props = <<>> THEN Value("")
    ELSE LET prop == Head(props)
         IN IF prop.tag = "null" THEN Raised
            ELSE IF IsHostName(GetNone(prop.displayName))
                 THEN Value(GetNone(prop.propertyValue))
                 ELSE NextHostProp(Tail(props))

\* item.get("connectionProperties", []) and the generator over it: a null
\* value raises TypeError (None is not iterable).
HostUrl(item) ==
    LET cp == item.connectionProperties
    IN IF cp.tag = "null" THEN Raised
       ELSE IF cp.tag = "absent" THEN Value("")
       ELSE NextHostProp(cp.list)

\* item.get("adapterType", {}).get("displayName", ""): a null adapterType
\* raises AttributeError.
AdapterType(item) ==
    LET at == item.adapterType
    IN IF at.tag = "null" THEN Raised
       ELSE IF at.tag = "absent" THEN Value("")
       ELSE Value(Get(at.displayName, ""))

\* The dict built for one item by process_items of get_connections_dev.py
\* (no service_account key), or raised.
ConnProcessItem(item) ==
    LET at == AdapterType(item)
        hu == HostUrl(item)
    IN IF at.raised \/ hu.raised THEN Raised
       ELSE Value([code |-> Get(item.id, ""),
                   adapter_type |-> at.value,
                   policy |-> Get(item.securityPolicy, ""),
                   status |-> Get(item.status, ""),
                   usage |-> Get(item.usage, ""),
                   usage_active |-> Get(item.usageActive, ""),
                   host_url |-> hu.value])

\* process_items(items) of get_connections_dev.py: the rows in item order,
\* or raised as soon as one item raises (nothing is returned then).
ConnProcessItems(items) ==
    IF \E i \in DOMAIN items : ConnProcessItem(items[i]).raised
    THEN [raised |-> TRUE, rows |-> <<>>]
    ELSE [raised |-> FALSE,
          rows |-> [i \in DOMAIN items |-> ConnProcessItem(items[i]).value]]

ConnFieldnames ==
    <<"code", "adapter_type", "policy", "status", "usage", "usage_active",
      "host_url", "service_account">>

\* -------------------------------------------------- integrations normalizer
IntFieldnames == <<"code", "name", "id", "status", "endpoint", "description">>

\* The dict process_items of get_integrations_dev.py hands to writerow.
IntProcessItem(item) ==
    [code |-> Get(item.code, ""),
     name |-> Get(item.name, ""),
     id |-> Get(item.id, ""),
     status |-> Get(item.status, ""),
     endpoint |-> Get(item.endPointURI, ""),
     description |-> Get(item.description, "")]

\* ---------------------------------------------------------- CSV materializer
Range(seq) == {seq[i] : i \in DOMAIN seq}

\* csv.DictWriter.writerow: one cell per fieldname; a key the dict lacks
\* is written as restval "", a None value as the empty string.
CsvRow(row, fieldnames) ==
    [k \in Range(fieldnames) |->
        IF k \notin DOMAIN row THEN ""
        ELSE IF row[k] = NULL THEN "" ELSE row[k]]

\* writer.writerows(rows)
CsvRows(rows, fieldnames) ==
    [i \in DOMAIN rows |-> CsvRow(rows[i], fieldnames)]

\* process_items(items, writer) of get_integrations_dev.py
IntProcessItems(items) ==
    [i \in DOMAIN items |-> CsvRow(IntProcessItem(items[i]), IntFieldnames)]

\* ------------------------------------------------------------ Import Uploader
\* str(n) for a status code n >= 0, digit by digit.
DigitChars == <<"0", "1", "2", "3", "4", "5", "6", "7", "8", "9">>

RECURSIVE Str(_)
Str(n) ==
    IF n < 10 THEN DigitChars[n + 1]
    ELSE Str(n \div 10) \o DigitChars[(n % 10) + 1]

\* A file name is its sequence of characters; a path is the sequence of its
\* components, os.path.join(directory, filename) == <<directory, filename>>.
Suffix == <<".", "i", "a", "r">>

\* EndsWith comparing only the extension letters, not the dot.
EndsWith_NoDot(name, suffix) ==
    /\ Len(name) >= Len(suffix) - 1
    /\ SubSeq(name, Len(name) - Len(suffix) + 2, Len(name)) = Tail(suffix)

\* filename.endswith('.iar')
EndsWith(name, suffix) ==
    /\ Len(name) >= Len(suffix)
    /\ SubSeq(name, Len(name) - Len(suffix) + 1, Len(name)) = suffix

PathJoin(directory, filename) == <<directory, filename>>

\* os.path.basename(filepath): the last component.
Basename(filepath) == filepath[Len(filepath)]

\* The URL upload_file requests with either method:
\* {base_url}{api_path}?integrationInstance={instance}
UploadUrl ==
    [host |-> "{base_url}", path |-> "{api_path}",
     integrationInstance |-> "{instance}"]

\* requests.request raising a RequestException (a network failure, or
\* TooManyRedirects)
UploadFailure == [exc |-> TRUE, status |-> 0, location |-> NoLocation]

\* rebuild_method of the requests library: the method of the request that
\* follows a redirect.
RedirectMethod(method, status) ==
    IF status \in {302, 303} THEN "GET"
    ELSE IF status = 301 /\ method = "POST" THEN "GET"
    ELSE method

\* One request of an upload: the method, the URL, the package the upload is
\* for, and whether the request carries the multipart payload (the library
\* drops the body when it follows a redirect other than 307 and 308).
UploadRequest(method, url, name, body) ==
    [method |-> method, url |-> url, file |-> name, body |-> body]

\* upload_file(filepath, ..., method): requests.request(method, url, ...)
\* follows redirects, as it does by default.  a1 is the server's answer to
\* the request for the upload URL, a2 its answer to every request the
\* library sends after it.  The requests sent, in order, and the response
\* returned (exc: the call raised).
UploadFile(filepath, method, a1, a2) ==
    LET name == Basename(filepath)
        first == UploadRequest(method, UploadUrl, name, TRUE)
        m1 == RedirectMethod(method, a1.status)
        b1 == a1.status \in {307, 308}
        m2 == RedirectMethod(m1, a2.status)
        b2 == b1 /\ a2.status \in {307, 308}
    IN IF ~IsRedirect(a1)
       THEN [requests |-> <<first>>, response |-> a1]
       ELSE IF ~IsRedirect(a2)
       THEN [requests |-> <<first, UploadRequest(m1, a1.location, name, b1)>>,
             response |-> a2]
       ELSE [requests |->
                <<first>> \o
                [i \in 1..RedirectLimit |->
                    IF i = 1 THEN UploadRequest(m1, a1.location, name, b1)
                    ELSE UploadRequest(m2, a2.location, name, b2)],
             response |-> UploadFailure]

\* what import_integration hands back: the requests sent, the responses its
\* requests.request calls returned, and either the [name, status, message]
\* it returns or raised (an exception of requests.request, which
\* import_integration does not catch)
Returned(sent, responses, status) ==
    [requests |-> sent, responses |-> responses, raised |-> FALSE,
     status |-> status]
RaisedBy(sent, responses) ==
    [requests |-> sent, responses |-> responses, raised |-> TRUE,
     status |-> <<>>]

\* ImportIntegration without the replace attempt: a 409 is reported as an
\* error like any other status.
ImportIntegration_NoReplace(filepath, post, put) ==
    LET name == Basename(filepath)
        POST == UploadFile(filepath, "POST", post.first, post.later)
        R1 == <<POST.response>>
    IN IF POST.response.exc THEN RaisedBy(POST.requests, R1)
       ELSE IF POST.response.status \in {200, 204}
       THEN Returned(POST.requests, R1, <<name, "SUCCESS", "Imported">>)
       ELSE Returned(POST.requests, R1, <<name, "ERROR", Str(POST.response.status)>>)

\* ImportIntegration reporting a successful replace as "Imported".
ImportIntegration_ReplaceSaysImported(filepath, post, put) ==
    LET name == Basename(filepath)
        POST == UploadFile(filepath, "POST", post.first, post.later)
        PUT == UploadFile(filepath, "PUT", put.first, put.later)
        R1 == <<POST.response>>
        R2 == <<POST.response, PUT.response>>
        both == POST.requests \o PUT.requests
    IN IF POST.response.exc THEN RaisedBy(POST.requests, R1)
       ELSE IF POST.response.status \in {200, 204}
       THEN Returned(POST.requests, R1, <<name, "SUCCESS", "Imported">>)
       ELSE IF POST.response.status = 409
       THEN IF PUT.response.exc THEN RaisedBy(both, R2)
            ELSE IF PUT.response.status \in {200, 204}
            THEN Returned(both, R2, <<name, "SUCCESS", "Imported">>)
            ELSE Returned(both, R2, <<name, "ERROR", Str(PUT.response.status)>>)
       ELSE Returned(POST.requests, R1, <<name, "ERROR", Str(POST.response.status)>>)

\* import_integration(filepath, ...) against a server whose answers to the
\* POST are post.first and, after a redirect, post.later, and likewise put
\* for the PUT.
ImportIntegration(filepath, post, put) ==
    LET name == Basename(filepath)
        POST == UploadFile(filepath, "POST", post.first, post.later)
        PUT == UploadFile(filepath, "PUT", put.first, put.later)
        R1 == <<POST.response>>
        R2 == <<POST.response, PUT.response>>
        both == POST.requests \o PUT.requests
    IN IF POST.response.exc THEN RaisedBy(POST.requests, R1)
       ELSE IF POST.response.status \in {200, 204}
       THEN Returned(POST.requests, R1, <<name, "SUCCESS", "Imported">>)
       ELSE IF POST.response.status = 409
       THEN IF PUT.response.exc THEN RaisedBy(both, R2)
            ELSE IF PUT.response.status \in {200, 204}
            THEN Returned(both, R2, <<name, "SUCCESS", "Replaced">>)
            ELSE Returned(both, R2, <<name, "ERROR", Str(PUT.response.status)>>)
       ELSE Returned(POST.requests, R1, <<name, "ERROR", Str(POST.response.status)>>)

ResultsHeader == <<"INTEGRATION", "STATUS", "MESSAGE">>

\* ================================================== get_connections_dev.py
Limit == 100

\* ---- what the server may answer during a connections run
Dict(displayName) == [tag |-> "dict", displayName |-> displayName]
Prop(displayName, propertyValue) ==
    [tag |-> "dict", displayName |-> displayName, propertyValue |-> propertyValue]
List(list) == [tag |-> "list", list |-> list]
AbsentKey == [tag |-> "absent", displayName |-> ABSENT, list |-> <<>>]
NullValue == [tag |-> "null", displayName |-> ABSENT, list |-> <<>>]

ConnItem1 ==
    [id |-> "c1", adapterType |-> Dict("REST"), securityPolicy |-> "BASIC_AUTH",
     status |-> "CONFIGURED", usage |-> "2", usageActive |-> "1",
     connectionProperties |-> List(<<Prop("Host", "h1"), Prop("WSDL URL", "h2")>>)]
ConnItem2 ==
    [id |-> "c2", adapterType |-> AbsentKey, securityPolicy |-> ABSENT,
     status |-> NULL, usage |-> ABSENT, usageActive |-> ABSENT,
     connectionProperties |-> AbsentKey]
ConnItemBad ==
    [id |-> "c3", adapterType |-> NullValue, securityPolicy |-> "NONE",
     status |-> "CONFIGURED", usage |-> "0", usageActive |-> "0",
     connectionProperties |-> List(<<>>)]

ConnItemLists ==
    {AbsentKey, NullValue, List(<<>>), List(<<ConnItem1>>),
     List(<<ConnItem2, ConnItem1>>), List(<<ConnItemBad>>),
     List(<<ConnItem1, ConnItemBad>>)}

HasMoreValues == {ABSENT, NULL, "true", "false"}

Page(items, hasMore) == [json |-> TRUE, items |-> items, hasMore |-> hasMore]

ConnPageFirst ==
    {Resp(200, NoLocation, Page(items, hasMore)) :
        items \in ConnItemLists, hasMore \in HasMoreValues}
    \cup {Resp(307, AltUrl, NoBody), Resp(500, NoLocation, NoBody), NetFailure}

ConnPageSecond ==
    {Resp(200, NoLocation, Page(List(<<ConnItem1>>), "true")),
     Resp(302, AltUrl, NoBody),
     Resp(404, NoLocation, NoBody)}

\* what the server may answer to the requests a redirected follow-up leads to
LaterAnswers == {Resp(500, NoLocation, NoBody)}

Detail(securityProperties) ==
    [json |-> TRUE, securityProperties |-> securityProperties]
SecProp(propertyName, propertyValue) ==
    [tag |-> "dict", propertyName |-> propertyName, propertyValue |-> propertyValue]

DetailFirst ==
    {Resp(200, NoLocation,
          Detail(List(<<SecProp("password", "x"), SecProp("username", "svc")>>))),
     Resp(200, NoLocation, Detail(AbsentKey)),
     Resp(200, NoLocation, Detail(NullValue)),
     Resp(500, NoLocation, NoBody)}

DetailSecond == {Resp(200, NoLocation, Detail(AbsentKey))}

\* ---- the URLs main builds
OldUrl(off) ==
    [host |-> "{instance}.integration.{region}.ocp.oraclecloud.com",
     path |-> "{api_path}", limit |-> Limit, offset |-> off,
     integrationInstance |-> ABSENT]

\* NewUrl never leaving the legacy host.
NewUrl_Legacy(off) == OldUrl(off)

NewUrl(off) ==
    [host |-> "design.integration.{region}.ocp.oraclecloud.com",
     path |-> "{api_path}", limit |-> Limit, offset |-> off,
     integrationInstance |-> "{instance}"]

DetailUrl(code) ==
    [host |-> "{instance}.integration.{region}.ocp.oraclecloud.com",
     path |-> "/ic/api/integration/v1/connections/", code |-> code,
     integrationInstance |-> "{instance}"]

\* response_data.get("items", []) is truthy: a non-empty list.
ItemsOf(data) == IF data.items.tag = "list" THEN data.items.list ELSE <<>>

\* response_data.get("hasMore", False) is truthy.
HasMore(data) == data.hasMore = "true"

ConnInit ==
    /\ pc = "old"
    /\ offset = 0
    /\ all_processed_items = <<>>
    /\ errors = <<>>
    /\ response_data = NoBody
    /\ requests = <<>>
    /\ fetches = <<>>
    /\ output_file = <<>>
    /\ row_index = 0

\* ConnPage whose except clause records the error but does not break: the
\* loop goes on with the other host.
ConnPage_ContinueOnError(url, message, nextPc) ==
    /\ offset < MaxPages * Limit
    /\ \E r1 \in ConnPageFirst, r2 \in ConnPageSecond, r3 \in LaterAnswers :
         LET f == FetchData(url, r1, r2, r3)
             items == ItemsOf(f.data)
             rows == ConnProcessItems(items)
         IN /\ requests' = requests \o f.gets
            /\ fetches' = Append(fetches, [url |-> url, raised |-> f.raised])
            /\ IF f.raised
               THEN /\ errors' = Append(errors, message)
                    /\ pc' = nextPc
                    /\ offset' = offset + Limit
                    /\ UNCHANGED <<response_data, all_processed_items>>
               ELSE /\ response_data' = f.data
                    /\ UNCHANGED errors
                    /\ IF items = <<>>
                       THEN /\ pc' = "after"
                            /\ UNCHANGED <<all_processed_items, offset>>
                       ELSE IF rows.raised
                       THEN /\ pc' = "crashed"
                            /\ UNCHANGED <<all_processed_items, offset>>
                       ELSE /\ all_processed_items' = all_processed_items \o rows.rows
                            /\ IF HasMore(f.data)
                               THEN /\ offset' = offset + Limit
                                    /\ pc' = nextPc
                               ELSE /\ pc' = "after"
                                    /\ UNCHANGED offset
    /\ UNCHANGED <<output_file, row_index>>
    /\ UNCHANGED notConn

\* One half of the while-loop body: fetch the page at `url`, then either
\* record the error and break, or process the items and break or advance.
ConnPage(url, message, nextPc) ==
    /\ offset < MaxPages * Limit
    /\ \E r1 \in ConnPageFirst, r2 \in ConnPageSecond, r3 \in LaterAnswers :
         LET f == FetchData(url, r1, r2, r3)
             items == ItemsOf(f.data)
             rows == ConnProcessItems(items)
         IN /\ requests' = requests \o f.gets
            /\ fetches' = Append(fetches, [url |-> url, raised |-> f.raised])
            /\ IF f.raised
               THEN /\ errors' = Append(errors, message)
                    /\ pc' = "after"
                    /\ UNCHANGED <<response_data, all_processed_items, offset>>
               ELSE /\ response_data' = f.data
                    /\ UNCHANGED errors
                    /\ IF items = <<>>
                       THEN /\ pc' = "after"
                            /\ UNCHANGED <<all_processed_items, offset>>
                       ELSE IF rows.raised
                       THEN /\ pc' = "crashed"
                            /\ UNCHANGED <<all_processed_items, offset>>
                       ELSE /\ all_processed_items' = all_processed_items \o rows.rows
                            /\ IF HasMore(f.data)
                               THEN /\ offset' = offset + Limit
                                    /\ pc' = nextPc
                               ELSE /\ pc' = "after"
                                    /\ UNCHANGED offset
    /\ UNCHANGED <<output_file, row_index>>
    /\ UNCHANGED notConn

ConnFetchOld ==
    /\ pc = "old"
    /\ ConnPage(OldUrl(offset), "Error fetching data from old URL", "new")

ConnFetchNew ==
    /\ pc = "new"
    /\ ConnPage(NewUrl(offset), "Error fetching data from new URL", "old")

\* if errors: print them; nothing is written.
ConnReportErrors ==
    /\ pc = "after"
    /\ errors # <<>>
    /\ pc' = "done"
    /\ UNCHANGED <<offset, all_processed_items, errors, response_data, requests,
                   fetches, output_file, row_index>>
    /\ UNCHANGED notConn

\* ConnWriteBase without the `if errors` test.
ConnWriteBase_IgnoreErrors ==
    /\ pc = "after"
    /\ output_file' = Append(output_file, CsvRows(all_processed_items, ConnFieldnames))
    /\ pc' = "enrich"
    /\ row_index' = 1
    /\ UNCHANGED <<offset, all_processed_items, errors, response_data, requests,
                   fetches>>
    /\ UNCHANGED notConn

\* else: write_to_csv(output_file, all_processed_items, fieldnames)
ConnWriteBase ==
    /\ pc = "after"
    /\ errors = <<>>
    /\ output_file' = Append(output_file, CsvRows(all_processed_items, ConnFieldnames))
    /\ pc' = "enrich"
    /\ row_index' = 1
    /\ UNCHANGED <<offset, all_processed_items, errors, response_data, requests,
                   fetches>>
    /\ UNCHANGED notConn

\* next((prop.get("propertyValue", "") for prop in props
\*       if prop.get("propertyName") == "username"), "")
RECURSIVE NextUsername(_)
NextUsername(props) ==
    IF props = <<>> THEN Value("")
    ELSE LET prop == Head(props)
         IN IF prop.tag = "null" THEN Raised
            ELSE IF GetNone(prop.propertyName) = "username"
                 THEN Value(Get(prop.propertyValue, ""))
                 ELSE NextUsername(Tail(props))

\* fetch_service_account(session, base_url, code, instance) against a server
\* answering r1, r2, r3: the GETs issued and the outcome, "fetch_error" (a
\* RequestException of fetch_data), "crash" (any other exception: a null
\* securityProperties or a null entry) or "ok" with the username.
FetchServiceAccount(code, r1, r2, r3) ==
    LET f == FetchData(DetailUrl(code), r1, r2, r3)
        sp == f.data.securityProperties
        user == IF sp.tag = "null" THEN Raised
                ELSE IF sp.tag = "absent" THEN Value("")
                ELSE NextUsername(sp.list)
    IN IF f.raised THEN [gets |-> f.gets, outcome |-> "fetch_error", value |-> NULL]
       ELSE IF user.raised THEN [gets |-> f.gets, outcome |-> "crash", value |-> NULL]
       ELSE [gets |-> f.gets, outcome |-> "ok", value |-> user.value]

\* item["service_account"] = value
SetServiceAccount(row, value) ==
    [k \in DOMAIN row \cup {"service_account"} |->
        IF k = "service_account" THEN value ELSE row[k]]

\* One iteration of `for item in all_processed_items`: a fetch error is
\* printed and the loop goes on with the next row.
ConnEnrichRow ==
    /\ pc = "enrich"
    /\ row_index <= Len(all_processed_items)
    /\ \E r1 \in DetailFirst, r2 \in DetailSecond, r3 \in LaterAnswers :
         LET item == all_processed_items[row_index]
             sa == FetchServiceAccount(item.code, r1, r2, r3)
         IN /\ requests' = requests \o sa.gets
            /\ fetches' = Append(fetches, [url |-> DetailUrl(item.code),
                                            raised |-> sa.outcome = "fetch_error"])
            /\ IF sa.outcome = "crash"
               THEN /\ pc' = "crashed"
                    /\ UNCHANGED <<all_processed_items, row_index>>
               ELSE /\ pc' = "enrich"
                    /\ row_index' = row_index + 1
                    /\ all_processed_items' =
                         IF sa.outcome = "ok"
                         THEN [all_processed_items EXCEPT
                                 ![row_index] = SetServiceAccount(item, sa.value)]
                         ELSE all_processed_items
    /\ UNCHANGED <<offset, errors, response_data, output_file>>
    /\ UNCHANGED notConn

\* ConnWriteEnriched without the second write_to_csv.
ConnWriteEnriched_NoWrite ==
    /\ pc = "enrich"
    /\ row_index > Len(all_processed_items)
    /\ pc' = "done"
    /\ UNCHANGED <<offset, all_processed_items, errors, response_data, requests,
                   fetches, output_file, row_index>>
    /\ UNCHANGED notConn

\* After the loop: write_to_csv(output_file, all_processed_items, fieldnames)
ConnWriteEnriched ==
    /\ pc = "enrich"
    /\ row_index > Len(all_processed_items)
    /\ output_file' = Append(output_file, CsvRows(all_processed_items, ConnFieldnames))
    /\ pc' = "done"
    /\ UNCHANGED <<offset, all_processed_items, errors, response_data, requests,
                   fetches, row_index>>
    /\ UNCHANGED notConn

ConnNext ==
    \/ ConnFetchOld
    \/ ConnFetchNew
    \/ ConnReportErrors
    \/ ConnWriteBase
    \/ ConnEnrichRow
    \/ ConnWriteEnriched

\* ================================================= get_integrations_dev.py
IntItem1 ==
    [code |-> "I1", name |-> "Order sync", id |-> "I1|01.00.0000",
     status |-> "ACTIVATED", endPointURI |-> "https://e/1", description |-> "d"]
IntItem2 ==
    [code |-> "I2", name |-> NULL, id |-> "I2|01.00.0000",
     status |-> ABSENT, endPointURI |-> ABSENT, description |-> NULL]

IntItemLists ==
    {AbsentKey, NullValue, List(<<>>), List(<<IntItem1>>),
     List(<<IntItem2, IntItem1>>)}

IntPageFirst ==
    {Resp(200, NoLocation, Page(items, hasMore)) :
        items \in IntItemLists, hasMore \in HasMoreValues}
    \cup {Resp(307, AltUrl, NoBody), Resp(500, NoLocation, NoBody), NetFailure}

IntPageSecond ==
    {Resp(200, NoLocation, Page(List(<<IntItem1>>), "true")),
     Resp(404, NoLocation, NoBody)}

\* construct_url(base_url, api_path, limit, offset, instance=None): the
\* integrationInstance parameter is added only for a truthy instance.
ConstructUrl(base_url, api_path, limit, off, instance) ==
    [host |-> base_url, path |-> api_path, limit |-> limit, offset |-> off,
     integrationInstance |->
        IF instance = NULL \/ instance = "" THEN ABSENT ELSE instance]

IntOldUrl(off) ==
    ConstructUrl("{instance}.integration.{region}.ocp.oraclecloud.com",
                 "{api_path}", Limit, off, NULL)

IntNewUrl(off) == ConstructUrl("{base_url}", "{api_path}", Limit, off, "{instance}")

NoFile == [exists |-> FALSE, open |-> FALSE, rows |-> <<>>]

IntInit ==
    /\ int_pc = "start"
    /\ int_offset = 0
    /\ int_response_data = NoBody
    /\ int_requests = <<>>
    /\ csv_file = NoFile
    /\ int_stdout = <<>>

\* create_csv_writer(output_file, fieldnames): the file is opened for
\* writing (truncated) and the header written, before any request.
IntCreateCsvWriter ==
    /\ int_pc = "start"
    /\ csv_file' = [exists |-> TRUE, open |-> TRUE, rows |-> <<>>]
    /\ int_pc' = "old"
    /\ UNCHANGED <<int_offset, int_response_data, int_requests, int_stdout>>
    /\ UNCHANGED notInt

\* One half of the while-loop body.  A RequestException of fetch_data
\* leaves the loop through the except clause, which prints it.
IntPage(url, nextPc) ==
    /\ int_offset < MaxPages * Limit
    /\ \E r1 \in IntPageFirst, r2 \in IntPageSecond, r3 \in LaterAnswers :
         LET f == FetchData(url, r1, r2, r3)
             items == ItemsOf(f.data)
         IN /\ int_requests' = int_requests \o f.gets
            /\ IF f.raised
               THEN /\ int_stdout' = Append(int_stdout, "Request error occurred")
                    /\ int_pc' = "finally"
                    /\ UNCHANGED <<int_response_data, csv_file, int_offset>>
               ELSE /\ int_response_data' = f.data
                    /\ UNCHANGED int_stdout
                    /\ IF items = <<>>
                       THEN /\ int_pc' = "finally"
                            /\ UNCHANGED <<csv_file, int_offset>>
                       ELSE /\ csv_file' =
                                 [csv_file EXCEPT
                                    !.rows = csv_file.rows \o IntProcessItems(items)]
                            /\ IF HasMore(f.data)
                               THEN /\ int_offset' = int_offset + Limit
                                    /\ int_pc' = nextPc
                               ELSE /\ int_pc' = "finally"
                                    /\ UNCHANGED int_offset
    /\ UNCHANGED notInt

IntFetchOld ==
    /\ int_pc = "old"
    /\ IntPage(IntOldUrl(int_offset), "new")

IntFetchNew ==
    /\ int_pc = "new"
    /\ IntPage(IntNewUrl(int_offset), "old")

\* finally: csv_file.close(); then print("Data successfully written ...")
IntFinish ==
    /\ int_pc = "finally"
    /\ csv_file' = [csv_file EXCEPT !.open = FALSE]
    /\ int_stdout' = Append(int_stdout, "Data successfully written")
    /\ int_pc' = "done"
    /\ UNCHANGED <<int_offset, int_response_data, int_requests>>
    /\ UNCHANGED notInt

IntNext ==
    \/ IntCreateCsvWriter
    \/ IntFetchOld
    \/ IntFetchNew
    \/ IntFinish

\* =============================================== import_integrations_dev.py
FileA == <<"a", ".", "i", "a", "r">>
FileB == <<"b", ".", "i", "a", "r">>
FileC == <<"c", ".", "i", "a", "r">>
FileTxt == <<"n", ".", "t", "x", "t">>
FileBare == <<"i", "a", "r">>

DirectoryFiles == {FileA, FileB, FileC, FileTxt, FileBare}

\* os.listdir(directory): the entries in any order, none twice.
Listings ==
    {l \in UNION {[1..n -> DirectoryFiles] : n \in 0..MaxFiles} :
        \A i, j \in DOMAIN l : i # j => l[i] # l[j]}

UploadStatuses == {200, 204, 409, 500}

UploadAnswer(status, location) ==
    [exc |-> FALSE, status |-> status, location |-> location]

\* an answer that ends a requests.request call: a status, or a failure
UploadResponses ==
    {UploadAnswer(st, NoLocation) : st \in UploadStatuses} \cup {UploadFailure}

\* how the server may treat one requests.request call: it answers the
\* request for the upload URL at once, or redirects it and answers the
\* request that follows
UploadExchanges ==
    {[first |-> a, later |-> a] : a \in UploadResponses}
    \cup {[first |-> UploadAnswer(307, AltUrl), later |-> UploadAnswer(st, NoLocation)] :
            st \in {200, 500}}
    \cup {[first |-> UploadAnswer(302, AltUrl), later |-> UploadAnswer(200, NoLocation)],
          [first |-> UploadAnswer(307, AltUrl), later |-> UploadAnswer(307, AltUrl)]}

ImportDirectory == "{export_directory}"

ImpInit ==
    /\ imp_pc = "loop"
    /\ listing \in Listings
    /\ file_index = 1
    /\ results = <<ResultsHeader>>
    /\ upload_requests = <<>>
    /\ upload_responses = <<>>
    /\ summary_csv = <<>>

\* for filename in os.listdir(directory): a name without the suffix
ImportSkipFile ==
    /\ imp_pc = "loop"
    /\ file_index <= Len(listing)
    /\ ~EndsWith(listing[file_index], Suffix)
    /\ file_index' = file_index + 1
    /\ UNCHANGED <<imp_pc, listing, results, upload_requests, upload_responses,
                   summary_csv>>
    /\ UNCHANGED notImp

\* for filename in os.listdir(directory): a name with the suffix is
\* imported and its status appended; an exception raised by the upload is
\* caught nowhere and ends the run.
ImportFile ==
    /\ imp_pc = "loop"
    /\ file_index <= Len(listing)
    /\ EndsWith(listing[file_index], Suffix)
    /\ \E post \in UploadExchanges, put \in UploadExchanges :
         LET filepath == PathJoin(ImportDirectory, listing[file_index])
             r == ImportIntegration(filepath, post, put)
         IN /\ upload_requests' = upload_requests \o r.requests
            /\ upload_responses' = upload_responses \o r.responses
            /\ IF r.raised
               THEN /\ imp_pc' = "crashed"
                    /\ UNCHANGED <<results, file_index>>
               ELSE /\ results' = Append(results, r.status)
                    /\ file_index' = file_index + 1
                    /\ UNCHANGED imp_pc
    /\ UNCHANGED <<listing, summary_csv>>
    /\ UNCHANGED notImp

\* return results; write_results_to_csv(results, instance)
ImportWriteResults ==
    /\ imp_pc = "loop"
    /\ file_index > Len(listing)
    /\ summary_csv' = results
    /\ imp_pc' = "done"
    /\ UNCHANGED <<listing, file_index, results, upload_requests, upload_responses>>
    /\ UNCHANGED notImp

ImpNext ==
    \/ ImportSkipFile
    \/ ImportFile
    \/ ImportWriteResults

\* ------------------------------ import_integration against a storing platform
\* The platform: POST answers 200 for a package it does not hold, and then
\* holds it; POST answers 409 for a package it holds; PUT answers 200.
PlatformPost(held, name) ==
    [exc |-> FALSE, status |-> IF name \in held THEN 409 ELSE 200,
     location |-> NoLocation]

PlatformPut == [exc |-> FALSE, status |-> 200, location |-> NoLocation]

PlatformStore(held, name, post) ==
    IF post.status = 200 THEN held \cup {name} ELSE held

Packages == {FileA, FileB, FileC}

PlatInit ==
    /\ store = {}
    /\ history = <<>>

\* one import_integration call for a package of the directory
PlatImport ==
    /\ Len(history) < MaxUploads
    /\ \E name \in Packages :
         LET post == PlatformPost(store, name)
             r == ImportIntegration(PathJoin(ImportDirectory, name),
                                    [first |-> post, later |-> post],
                                    [first |-> PlatformPut, later |-> PlatformPut])
         IN /\ history' = Append(history, r.status)
            /\ store' = PlatformStore(store, name, post)
    /\ UNCHANGED notPlat

PlatNext == PlatImport

\* ============================================================== fetch_data
FetchStatuses == {200, 204, 301, 302, 304, 307, 404, 500}

JsonBody == [json |-> TRUE]

FetchResponses ==
    {Resp(st, loc, body) :
        st \in FetchStatuses, loc \in {NoLocation, AltUrl}, body \in {JsonBody, NoBody}}
    \cup {NetFailure}

FetchUrl == OldUrl(0)

NoResult == [gets |-> <<>>, raised |-> FALSE, data |-> NoBody]

FetchInit ==
    /\ f_r1 \in FetchResponses
    /\ f_r2 \in FetchResponses
    /\ f_r3 \in FetchResponses
    /\ f_result = NoResult
    /\ f_pc = "call"

\* fetch_data(session, url)
FetchCall ==
    /\ f_pc = "call"
    /\ f_result' = FetchData(FetchUrl, f_r1, f_r2, f_r3)
    /\ f_pc' = IF FetchData(FetchUrl, f_r1, f_r2, f_r3).raised THEN "raised" ELSE "returned"
    /\ UNCHANGED <<f_r1, f_r2, f_r3>>
    /\ UNCHANGED notFetch

FetchNext == FetchCall

\* ============================================================ process_items
\* Raw items whose source fields are, independently, absent, null or present.
Scalars(v) == {ABSENT, NULL, v}

NullEntry == [tag |-> "null"]

NormProps ==
    {NullEntry, Prop("Host", "h1"), Prop("WSDL URL", "h2"), Prop("Other", "o"),
     Prop(NULL, "x"), Prop("Connection URL", ABSENT)}

NormPropLists ==
    {AbsentKey, NullValue}
    \cup {List(l) : l \in UNION {[1..n -> NormProps] : n \in 0..MaxProps}}

NormAdapterTypes ==
    {AbsentKey, NullValue} \cup {Dict(d) : d \in Scalars("REST")}

NormConnItems ==
    [id : Scalars("c1"), adapterType : NormAdapterTypes,
     securityPolicy : Scalars("BASIC_AUTH"), status : Scalars("CONFIGURED"),
     usage : Scalars("2"), usageActive : Scalars("1"),
     connectionProperties : NormPropLists]

NormIntItems ==
    [code : Scalars("I1"), name : Scalars("Order sync"), id : Scalars("I1|01"),
     status : Scalars("ACTIVATED"), endPointURI : Scalars("https://e/1"),
     description : Scalars("d")]

NoRow == [raised |-> FALSE, rows |-> <<>>, csv |-> <<>>]

NormInit ==
    /\ \/ n_kind = "conn" /\ n_item \in NormConnItems
       \/ n_kind = "int" /\ n_item \in NormIntItems
    /\ n_result = NoRow
    /\ n_pc = "call"

\* process_items([item]) of get_connections_dev.py, and the rows as
\* write_to_csv writes them under fieldnames
NormalizeConnection ==
    /\ n_pc = "call"
    /\ n_kind = "conn"
    /\ LET r == ConnProcessItems(<<n_item>>)
       IN /\ n_result' = [raised |-> r.raised, rows |-> r.rows,
                          csv |-> CsvRows(r.rows, ConnFieldnames)]
          /\ n_pc' = IF r.raised THEN "raised" ELSE "returned"
    /\ UNCHANGED <<n_kind, n_item>>
    /\ UNCHANGED notNorm

\* process_items([item], writer) of get_integrations_dev.py
NormalizeIntegration ==
    /\ n_pc = "call"
    /\ n_kind = "int"
    /\ n_result' = [raised |-> FALSE, rows |-> <<IntProcessItem(n_item)>>,
                    csv |-> IntProcessItems(<<n_item>>)]
    /\ n_pc' = "returned"
    /\ UNCHANGED <<n_kind, n_item>>
    /\ UNCHANGED notNorm

NormNext ==
    \/ NormalizeConnection
    \/ NormalizeIntegration

\* =========================================================== specifications
ConnIdle ==
    /\ pc = "idle"
    /\ offset = 0
    /\ all_processed_items = <<>>
    /\ errors = <<>>
    /\ response_data = NoBody
    /\ requests = <<>>
    /\ fetches = <<>>
    /\ output_file = <<>>
    /\ row_index = 0

IntIdle ==
    /\ int_pc = "idle"
    /\ int_offset = 0
    /\ int_response_data = NoBody
    /\ int_requests = <<>>
    /\ csv_file = NoFile
    /\ int_stdout = <<>>

ImpIdle ==
    /\ imp_pc = "idle"
    /\ listing = <<>>
    /\ file_index = 1
    /\ results = <<>>
    /\ upload_requests = <<>>
    /\ upload_responses = <<>>
    /\ summary_csv = <<>>

PlatIdle ==
    /\ store = {}
    /\ history = <<>>

FetchIdle ==
    /\ f_r1 = NetFailure
    /\ f_r2 = NetFailure
    /\ f_r3 = NetFailure
    /\ f_result = NoResult
    /\ f_pc = "idle"

\* ------------------------------------------------------------- ensure_https
HttpPrefix == <<"h", "t", "t", "p", ":", "/", "/">>
HttpsPrefix == <<"h", "t", "t", "p", "s", ":", "/", "/">>

\* s.startswith(prefix)
StartsWith(s, prefix) ==
    /\ Len(s) >= Len(prefix)
    /\ SubSeq(s, 1, Len(prefix)) = prefix

\* s.lstrip(chars): chars is a set of characters, every leading character
\* of s that belongs to it is removed.
RECURSIVE Lstrip(_, _)
Lstrip(s, chars) ==
    IF s # <<>> /\ \E i \in DOMAIN chars : chars[i] = Head(s)
    THEN Lstrip(Tail(s), chars)
    ELSE s

\* ensure_https(base_url)
EnsureHttps(url) ==
    IF ~StartsWith(url, HttpsPrefix)
    THEN HttpsPrefix \o Lstrip(url, HttpPrefix)
    ELSE url

\* the characters a host is written with here
UrlChars == {"h", "t", "o", "."}
Hosts == UNION {[1..n -> UrlChars] : n \in 0..MaxUrlLen}

\* base_url of config.json: a host, bare or after a scheme
BaseUrls == {scheme \o host : scheme \in {<<>>, HttpPrefix, HttpsPrefix}, host \in Hosts}

HttpsInit ==
    /\ config_base_url \in BaseUrls
    /\ https_url = <<>>
    /\ https_pc = "call"

\* base_url = ensure_https(config['base_url'])
EnsureHttpsCall ==
    /\ https_pc = "call"
    /\ https_url' = EnsureHttps(config_base_url)
    /\ https_pc' = "done"
    /\ UNCHANGED config_base_url
    /\ UNCHANGED notHttps

HttpsNext == EnsureHttpsCall

NormIdle ==
    /\ n_kind = "idle"
    /\ n_item = <<>>
    /\ n_result = NoRow
    /\ n_pc = "idle"

HttpsIdle ==
    /\ config_base_url = <<>>
    /\ https_url = <<>>
    /\ https_pc = "idle"

\* a run of get_connections_dev.py
Init == ConnInit /\ IntIdle /\ ImpIdle /\ PlatIdle /\ FetchIdle /\ NormIdle /\ HttpsIdle
Next == ConnNext
Spec == Init /\ [][Next]_vars

\* a run of get_integrations_dev.py
InitInt == ConnIdle /\ IntInit /\ ImpIdle /\ PlatIdle /\ FetchIdle /\ NormIdle /\ HttpsIdle
SpecInt == InitInt /\ [][IntNext]_vars

\* a run of import_integrations_dev.py
InitImp == ConnIdle /\ IntIdle /\ ImpInit /\ PlatIdle /\ FetchIdle /\ NormIdle /\ HttpsIdle
SpecImp == InitImp /\ [][ImpNext]_vars

\* import_integration called repeatedly against the storing platform
InitPlat == ConnIdle /\ IntIdle /\ ImpIdle /\ PlatInit /\ FetchIdle /\ NormIdle /\ HttpsIdle
SpecPlat == InitPlat /\ [][PlatNext]_vars

\* one call of fetch_data
InitFetch == ConnIdle /\ IntIdle /\ ImpIdle /\ PlatIdle /\ FetchInit /\ NormIdle /\ HttpsIdle
SpecFetch == InitFetch /\ [][FetchNext]_vars

\* one call of a normalizer
InitNorm == ConnIdle /\ IntIdle /\ ImpIdle /\ PlatIdle /\ FetchIdle /\ NormInit /\ HttpsIdle
SpecNorm == InitNorm /\ [][NormNext]_vars

\* one call of ensure_https
InitHttps ==
    ConnIdle /\ IntIdle /\ ImpIdle /\ PlatIdle /\ FetchIdle /\ NormIdle /\ HttpsInit
SpecHttps == InitHttps /\ [][HttpsNext]_vars

\* ================================================================== claims
Last(seq) == seq[Len(seq)]

\* the fetch_data calls for a page (their URL carries an offset)
PageFetches(fs) == SelectSeq(fs, LAMBDA x : "offset" \in DOMAIN x.url)

SweepRunning(p) == p \in {"old", "new"}

\* this step of the connections sweep fetched a page without a fetch error
ConnPageReceived ==
    /\ SweepRunning(pc)
    /\ Len(fetches') = Len(fetches) + 1
    /\ ~Last(fetches').raised

\* the page received carries no item / carries items and hasMore = false
NoItems(data) == data.items.tag # "list" \/ data.items.list = <<>>
LastPage(data) ==
    /\ data.items.tag = "list"
    /\ data.items.list # <<>>
    /\ data.hasMore = "false"

\* C1: in the connections sweep, a page with an empty item list ends the
\* sweep (also when hasMore is true); a page with items and hasMore = false
\* has all its items added to the result and then ends the sweep; once the
\* sweep has ended no further page is requested.
C1_PaginationTermination ==
    [][ /\ (ConnPageReceived /\ NoItems(response_data')) => ~SweepRunning(pc')
        /\ (ConnPageReceived /\ LastPage(response_data')) =>
              /\ Len(all_processed_items') =
                    Len(all_processed_items) + Len(response_data'.items.list)
              /\ ~SweepRunning(pc')
        /\ ~SweepRunning(pc) =>
              /\ ~SweepRunning(pc')
              /\ PageFetches(fetches') = PageFetches(fetches) ]_vars

\* this step of the integrations sweep fetched a page without a fetch error
IntPageReceived ==
    /\ SweepRunning(int_pc)
    /\ int_requests' # int_requests
    /\ int_stdout' = int_stdout

\* C1 (integrations sweep): the same statement for get_integrations_dev.py,
\* the result being the rows written to the output file.
C1_IntPaginationTermination ==
    [][ /\ (IntPageReceived /\ NoItems(int_response_data')) => ~SweepRunning(int_pc')
        /\ (IntPageReceived /\ LastPage(int_response_data')) =>
              /\ Len(csv_file'.rows) =
                    Len(csv_file.rows) + Len(int_response_data'.items.list)
              /\ ~SweepRunning(int_pc')
        /\ (int_pc # "start" /\ ~SweepRunning(int_pc)) =>
              /\ ~SweepRunning(int_pc')
              /\ int_requests' = int_requests ]_vars

\* the text of a status code as the claim writes it
StatusText(st) ==
    CASE st = 200 -> "200"
      [] st = 204 -> "204"
      [] st = 409 -> "409"
      [] st = 500 -> "500"

\* C2: the status import_integration returns is [name, SUCCESS, Imported]
\* for a POST answered 200/204; [name, SUCCESS, Replaced] for a POST
\* answered 409 and a PUT answered 200/204; [name, ERROR, PUT status] for
\* a POST answered 409 and any other PUT status; [name, ERROR, POST status]
\* for any other POST status; SUCCESS exactly with Imported or Replaced.
C2_ImportOutcome ==
    [][ Len(results') = Len(results) + 1 =>
          LET row == Last(results')
              resp == SubSeq(upload_responses', Len(upload_responses) + 1,
                             Len(upload_responses'))
              name == listing[file_index]
              post == resp[1].status
          IN /\ Len(resp) >= 1
             /\ post \in {200, 204} => row = <<name, "SUCCESS", "Imported">>
             /\ post = 409 =>
                  /\ Len(resp) = 2
                  /\ resp[2].status \in {200, 204} =>
                        row = <<name, "SUCCESS", "Replaced">>
                  /\ resp[2].status \notin {200, 204} =>
                        row = <<name, "ERROR", StatusText(resp[2].status)>>
             /\ post \notin {200, 204, 409} =>
                  row = <<name, "ERROR", StatusText(post)>>
             /\ (row[2] = "SUCCESS") <=> (row[3] \in {"Imported", "Replaced"}) ]_vars

\* a replaced package followed by one whose POST gave 409 and whose PUT failed
C2_Witness ==
    /\ Len(results) = 3
    /\ results[2][3] = "Replaced"
    /\ results[3][2] = "ERROR"
    /\ Len(upload_responses) = 4

\* C3: with files A, B, C listed in that order and the upload of B raising
\* a network-level exception, the batch is not aborted: A has an outcome
\* row and B has an outcome row with status ERROR.
C3_BatchIsolation ==
    ( /\ listing = <<FileA, FileB, FileC>>
      /\ upload_responses # <<>>
      /\ Last(upload_responses).exc
      /\ Last(upload_requests).file = FileB )
    => /\ imp_pc # "crashed"
       /\ \E k \in 2..Len(results) : results[k][1] = FileA
       /\ \E k \in 2..Len(results) : results[k][1] = FileB /\ results[k][2] = "ERROR"

\* C4: against the storing platform the first import of a package returns
\* SUCCESS/Imported and every later import of it SUCCESS/Replaced.
C4_IdempotentImport ==
    \A i \in DOMAIN history :
        LET name == history[i][1]
            earlier == \E j \in 1..(i - 1) : history[j][1] = name
        IN history[i] = <<name, "SUCCESS", IF earlier THEN "Replaced" ELSE "Imported">>

\* one package imported three times in a row
C4_Witness ==
    /\ Len(history) >= 3
    /\ history[1][1] = FileB
    /\ history[2][1] = FileB
    /\ history[3][1] = FileB
    /\ history[3][3] = "Replaced"

\* the host_url the claim describes: the value of the property whose
\* display name comes first in the priority list, "" without any match
PriorityHostUrl(item) ==
    LET cp == item.connectionProperties
        props == IF cp.tag = "list" THEN cp.list ELSE <<>>
        Named(i) == {j \in DOMAIN props :
                        props[j].tag = "dict" /\ props[j].displayName = HostNames[i]}
        Matched == {i \in DOMAIN HostNames : Named(i) # {}}
    IN IF Matched = {} THEN ""
       ELSE LET i == CHOOSE m \in Matched : \A o \in Matched : m <= o
                j == CHOOSE m \in Named(i) : \A o \in Named(i) : m <= o
            IN GetNone(props[j].propertyValue)

\* C5: host_url of a normalized connection is the value of the property
\* whose display name comes first in the priority list, whatever the order
\* of the item's connectionProperties; "" when no property matches.
C5_HostUrlPriority ==
    (n_pc = "returned" /\ n_kind = "conn") =>
        n_result.rows[1].host_url = PriorityHostUrl(n_item)

\* C6: fetch_data issues its first GET to the url with redirects disabled,
\* a second GET (to the Location header's URL) exactly when the first
\* status is 307, and never more than two GETs.
C6_RedirectFollowUp ==
    f_pc # "call" =>
        LET gets == f_result.gets
        IN /\ Len(gets) >= 1
           /\ Len(gets) <= 2
           /\ gets[1] = [url |-> FetchUrl, allow_redirects |-> FALSE]
           /\ (Len(gets) = 2) <=> ((~f_r1.exc) /\ f_r1.status = 307)
           /\ Len(gets) = 2 => gets[2].url = f_r1.location

\* C7: fetch_data raises for every final status outside 200..299 and
\* returns only for a 2xx final status.
C7_RaisesOnNon2xx ==
    (f_pc # "call" /\ ~FinalResponse(f_r1, f_r2, f_r3).exc) =>
        LET status == FinalResponse(f_r1, f_r2, f_r3).status
        IN /\ (status < 200 \/ status > 299) => f_pc = "raised"
           /\ f_pc = "returned" => (status >= 200 /\ status <= 299)

\* "" for a source value that is absent or null
Blank(v, cell) == (v \in {ABSENT, NULL}) => cell = ""

\* C8: for every raw item whose source fields are independently absent,
\* null or present the normalizer raises no error and the row written has
\* exactly the declared fields, each absent or null source field being "".
C8_NormalizerTotality ==
    n_pc # "call" =>
        /\ n_pc = "returned"
        /\ Len(n_result.csv) = 1
        /\ LET row == n_result.csv[1]
           IN IF n_kind = "conn"
              THEN /\ DOMAIN row = Range(ConnFieldnames)
                   /\ Blank(n_item.id, row.code)
                   /\ Blank(n_item.securityPolicy, row.policy)
                   /\ Blank(n_item.status, row.status)
                   /\ Blank(n_item.usage, row.usage)
                   /\ Blank(n_item.usageActive, row.usage_active)
                   /\ n_item.adapterType.tag # "dict" => row.adapter_type = ""
                   /\ n_item.adapterType.tag = "dict" =>
                         Blank(n_item.adapterType.displayName, row.adapter_type)
                   /\ n_item.connectionProperties.tag # "list" => row.host_url = ""
                   /\ row.service_account = ""
              ELSE /\ DOMAIN row = Range(IntFieldnames)
                   /\ Blank(n_item.code, row.code)
                   /\ Blank(n_item.name, row.name)
                   /\ Blank(n_item.id, row.id)
                   /\ Blank(n_item.status, row.status)
                   /\ Blank(n_item.endPointURI, row.endpoint)
                   /\ Blank(n_item.description, row.description)

\* C9: the first fetch error of the connections sweep is appended to
\* errors and ends the sweep with the collected items unchanged; once an
\* error is recorded no request is issued and items and errors stay as
\* they are.
C9_FetchErrorAbortsSweep ==
    [][ /\ ( /\ SweepRunning(pc)
             /\ Len(fetches') = Len(fetches) + 1
             /\ Last(fetches').raised )
           => /\ errors = <<>>
              /\ Len(errors') = 1
              /\ all_processed_items' = all_processed_items
              /\ ~SweepRunning(pc')
        /\ errors # <<>> =>
              /\ requests' = requests
              /\ fetches' = fetches
              /\ all_processed_items' = all_processed_items
              /\ errors' = errors
              /\ ~SweepRunning(pc') ]_vars

\* the second page (design host) failed after the first brought rows
C9_Witness ==
    /\ pc = "done"
    /\ errors = <<"Error fetching data from new URL">>
    /\ all_processed_items # <<>>
    /\ offset = Limit

\* C10: with a fetch error recorded the output file is never written and
\* no service-account detail request is issued; the file is written only
\* after a sweep that ended with an empty error list.
C10_NoOutputAfterSweepError ==
    /\ errors # <<>> =>
          /\ output_file = <<>>
          /\ \A i \in DOMAIN requests : "code" \notin DOMAIN requests[i].url
    /\ output_file # <<>> => (errors = <<>> /\ ~SweepRunning(pc))

\* the third page (legacy host) failed; the run ended without a write
C10_Witness ==
    /\ pc = "done"
    /\ errors = <<"Error fetching data from old URL">>
    /\ Len(all_processed_items) >= 2
    /\ offset = 2 * Limit
    /\ output_file = <<>>

\* C11: an integrations sweep cut short by a fetch error leaves no rows in
\* the output file and does not report the data as successfully written.
C11_NoTruncatedOutput ==
    (int_pc = "done" /\ \E i \in DOMAIN int_stdout :
                            int_stdout[i] = "Request error occurred")
    => /\ csv_file.rows = <<>>
       /\ \A i \in DOMAIN int_stdout : int_stdout[i] # "Data successfully written"

\* the fetch_service_account calls (their URL carries a code)
DetailFetches(fs) == SelectSeq(fs, LAMBDA x : "code" \in DOMAIN x.url)

\* the run finished both writes
ConnRunSucceeded == pc = "done" /\ errors = <<>>

\* one detail call per row, in row order; a row whose call raised a fetch
\* error has an empty service_account in the final write
OneCallPerRow ==
    LET calls == DetailFetches(fetches)
    IN /\ Len(calls) = Len(all_processed_items)
       /\ Len(output_file) = 2
       /\ Len(output_file[2]) = Len(all_processed_items)
       /\ \A i \in DOMAIN calls :
             /\ calls[i].url.code = all_processed_items[i].code
             /\ calls[i].raised => output_file[2][i].service_account = ""

\* C12: the enrichment pass makes exactly one fetch_service_account call per
\* collected row, in row order, whatever happened to earlier rows' calls; a
\* row whose call fails keeps an empty service_account, and the final write
\* happens with the same number of rows: a failing call never ends the run.
C12_EnrichmentIsolation ==
    /\ output_file # <<>> => pc # "crashed"
    /\ ConnRunSucceeded => OneCallPerRow

\* C12 (fetch errors only): the same statement for the runs in which every
\* failing call failed with a fetch error.
C12_FetchErrorIsolation ==
    /\ (pc = "enrich" /\ row_index > Len(all_processed_items)) =>
          Len(DetailFetches(fetches)) = Len(all_processed_items)
    /\ ConnRunSucceeded => OneCallPerRow

\* the rows written are the collected rows, in order, with "" for a null
\* value and an empty service_account
BaseRows(written, rows) ==
    /\ Len(written) = Len(rows)
    /\ \A i \in DOMAIN rows :
          /\ written[i].service_account = ""
          /\ \A k \in DOMAIN rows[i] :
                written[i][k] = IF rows[i][k] = NULL THEN "" ELSE rows[i][k]

\* the same rows in the same order, differing at most in service_account
SameButServiceAccount(second, first) ==
    /\ Len(second) = Len(first)
    /\ \A i \in DOMAIN first :
          /\ DOMAIN second[i] = DOMAIN first[i]
          /\ \A k \in DOMAIN first[i] \ {"service_account"} :
                second[i][k] = first[i][k]

\* C13: in a successful connections run every page request precedes the
\* first write; the first write holds all collected rows with an empty
\* service_account and precedes every detail request; the second write
\* follows the last enrichment attempt and holds the same rows in the same
\* order, differing only in service_account; the file is written exactly
\* twice.
C13_TwoPhaseOrdering ==
    [][ /\ output_file # <<>> => PageFetches(fetches') = PageFetches(fetches)
        /\ (output_file = <<>> /\ output_file' # <<>>) =>
              /\ Len(output_file') = 1
              /\ ~SweepRunning(pc)
              /\ DetailFetches(fetches') = <<>>
              /\ BaseRows(output_file'[1], all_processed_items)
        /\ (Len(output_file) = 1 /\ output_file' # output_file) =>
              /\ Len(output_file') = 2
              /\ output_file'[1] = output_file[1]
              /\ Len(DetailFetches(fetches)) = Len(all_processed_items)
              /\ SameButServiceAccount(output_file'[2], output_file[1])
              /\ pc' = "done"
        /\ Len(output_file) = 2 => (output_file' = output_file /\ fetches' = fetches)
        /\ (pc' = "done" /\ errors' = <<>>) => Len(output_file') = 2 ]_vars

\* a two-page run whose enrichment changed what the file holds
C13_Witness ==
    /\ ConnRunSucceeded
    /\ offset = Limit
    /\ Len(output_file) = 2
    /\ Len(output_file[2]) >= 2
    /\ output_file[2] # output_file[1]

\* the entries of a listing whose name ends with ".iar", in listing order
IarEntries(l) ==
    SelectSeq(l, LAMBDA f : /\ Len(f) >= 4
                            /\ f[Len(f) - 3] = "."
                            /\ f[Len(f) - 2] = "i"
                            /\ f[Len(f) - 1] = "a"
                            /\ f[Len(f)] = "r")

\* the names in the outcome rows, header left out
OutcomeNames(rs) == [i \in 1..(Len(rs) - 1) |-> rs[i + 1][1]]

\* C14: when no upload raises, the returned sequence is the header
\* followed by exactly one outcome per listed entry whose name ends with
\* ".iar", in listing order; other entries cause no upload request and no
\* row; a row is never changed after it is appended.
C14_OneOutcomePerPackage ==
    [][ /\ imp_pc' = "done" =>
              /\ results'[1] = ResultsHeader
              /\ OutcomeNames(results') = IarEntries(listing)
        /\ \A i \in DOMAIN upload_requests' :
              \E j \in DOMAIN IarEntries(listing) :
                  upload_requests'[i].file = IarEntries(listing)[j]
        /\ Len(results') >= Len(results)
        /\ \A i \in DOMAIN results : results'[i] = results[i] ]_vars

\* a finished batch that skipped one entry and imported two
C14_Witness ==
    /\ imp_pc = "done"
    /\ listing = <<FileTxt, FileB, FileA>>
    /\ Len(results) = 3
    /\ Len(upload_requests) >= 2

\* C15: each package causes exactly one POST first; a PUT follows at most
\* once and only when that POST returned 409; any other non-success POST
\* status, and a failed PUT, are followed by no further request for the
\* package; so a package causes at most two upload requests, both to the
\* same URL.
C15_UploadRequestSequence ==
    [][ upload_requests' # upload_requests =>
          LET new == SubSeq(upload_requests', Len(upload_requests) + 1,
                            Len(upload_requests'))
              resp == SubSeq(upload_responses', Len(upload_responses) + 1,
                             Len(upload_responses'))
              name == listing[file_index]
          IN /\ SubSeq(upload_requests', 1, Len(upload_requests)) = upload_requests
             /\ Len(new) \in {1, 2}
             /\ new[1].method = "POST"
             /\ new[1].file = name
             /\ (Len(new) = 2) <=> (~resp[1].exc /\ resp[1].status = 409)
             /\ Len(new) = 2 =>
                   /\ new[2].method = "PUT"
                   /\ new[2].file = name
                   /\ new[2].url = new[1].url
             /\ \A i \in DOMAIN upload_requests : upload_requests[i].file # name ]_vars

\* C15, the part about import_integration's own calls: it calls
\* requests.request once with POST and, exactly when that call returned
\* 409, once more with PUT, never again for the package.
C15_UploadCalls ==
    [][ upload_requests' # upload_requests =>
          LET resp == SubSeq(upload_responses', Len(upload_responses) + 1,
                             Len(upload_responses'))
              name == listing[file_index]
          IN /\ Len(resp) \in {1, 2}
             /\ (Len(resp) = 2) <=> (~resp[1].exc /\ resp[1].status = 409)
             /\ \A i \in DOMAIN upload_requests : upload_requests[i].file # name ]_vars

\* C16: the k-th page request of the connections sweep (k = 0, 1, 2, ...)
\* uses offset k*limit; it targets the legacy, instance-named host when k is
\* even and the design host, with the integrationInstance parameter, when k
\* is odd; so every offset is requested once, from one host, and the host
\* switches with every offset increment.
C16_HostAlternation ==
    LET pages == PageFetches(fetches)
    IN \A i \in DOMAIN pages :
          LET k == i - 1
              u == pages[i].url
          IN /\ u.offset = k * Limit
             /\ u.limit = Limit
             /\ k % 2 = 0 =>
                   /\ u.host = "{instance}.integration.{region}.ocp.oraclecloud.com"
                   /\ u.integrationInstance = ABSENT
             /\ k % 2 = 1 =>
                   /\ u.host = "design.integration.{region}.ocp.oraclecloud.com"
                   /\ u.integrationInstance = "{instance}"

\* a sweep of three pages: legacy, design, legacy
C16_Witness ==
    /\ Len(PageFetches(fetches)) = 3
    /\ offset = 2 * Limit
    /\ ~SweepRunning(pc)

\* the page requests of the integrations sweep: the first GET of each
\* fetch_data call (the follow-up GET to a Location allows redirects)
IntPageRequests(rs) == SelectSeq(rs, LAMBDA x : ~x.allow_redirects)

PrimaryHost == "{instance}.integration.{region}.ocp.oraclecloud.com"

\* C17: every page request of an integrations sweep targets the
\* primary (instance-named) host; the host does not alternate between
\* successive offsets.
C17_PrimaryHostOnly ==
    \A i \in DOMAIN IntPageRequests(int_requests) :
        IntPageRequests(int_requests)[i].url.host = PrimaryHost

\* the page just received ends a sweep: it is empty or its hasMore is not true
EndingPage(data) == NoItems(data) \/ ~HasMore(data)

\* C18: the connections sweep ends when the server returns an empty page,
\* a page with hasMore = false or an error, and only then: the client sets
\* no page bound, so after a non-empty page with hasMore = true the sweep
\* goes on to the next page.
C18_SweepTermination ==
    [][ SweepRunning(pc) =>
          IF fetches' = fetches THEN SweepRunning(pc')
          ELSE IF Last(fetches').raised THEN ~SweepRunning(pc')
          ELSE /\ EndingPage(response_data') => ~SweepRunning(pc')
               /\ ~EndingPage(response_data') =>
                     /\ SweepRunning(pc')
                     /\ offset' = offset + Limit ]_vars

\* C18 (integrations sweep): the same statement for get_integrations_dev.py.
C18_IntSweepTermination ==
    [][ SweepRunning(int_pc) =>
          IF int_requests' = int_requests THEN SweepRunning(int_pc')
          ELSE IF int_stdout' # int_stdout THEN ~SweepRunning(int_pc')
          ELSE /\ EndingPage(int_response_data') => ~SweepRunning(int_pc')
               /\ ~EndingPage(int_response_data') =>
                     /\ SweepRunning(int_pc')
                     /\ int_offset' = int_offset + Limit ]_vars

\* C19: for every base URL the result of ensure_https starts with
\* "https://"; a URL already starting with "https://" is returned
\* unchanged; for "http://" + rest, or a bare rest, the result is
\* "https://" + rest, rest kept character for character.
C19_EnsureHttps ==
    https_pc = "done" =>
       /\ StartsWith(https_url, HttpsPrefix)
       /\ IF StartsWith(config_base_url, HttpsPrefix)
          THEN https_url = config_base_url
          ELSE IF StartsWith(config_base_url, HttpPrefix)
          THEN https_url =
                 HttpsPrefix \o SubSeq(config_base_url, Len(HttpPrefix) + 1,
                                       Len(config_base_url))
          ELSE https_url = HttpsPrefix \o config_base_url

\* C19, the part the code keeps: the result starts with "https://", and a
\* URL already starting with it is returned unchanged.
C19_HttpsPrefixKept ==
    https_pc = "done" =>
       /\ StartsWith(https_url, HttpsPrefix)
       /\ StartsWith(config_base_url, HttpsPrefix) => https_url = config_base_url

====
